---- MODULE Spec2Model ----
(***************************************************************************)
(* Model of gemini-twitter-mirror (src/main.go).                           *)
(*                                                                         *)
(* Two flows of control share one TweetCache without any lock:             *)
(*   - the Refresher goroutine (main.go:65-82), modelled statement by      *)
(*     statement: interval check, fetch, cooldown sleep, the two stores;   *)
(*   - one request handler (main.go:185-201), modelled read by read: every *)
(*     evaluation of tc.Tweets in GetOnPosition (main.go:85, 85, 88) is a  *)
(*     step of its own, so that the Refresher's stores interleave with it. *)
(*                                                                         *)
(* Strings are modelled as sequences of non-empty pieces; concatenation is *)
(* \o and the empty string is << >>.  Times are minutes.                   *)
(***************************************************************************)
EXTENDS Integers, Sequences, FiniteSets, TLC

VARIABLES
    Tweets,       \* tc.Tweets                                (main.go:61)
    LastRefresh,  \* tc.LastRefresh                           (main.go:62)
    now,          \* the wall clock read by time.Since / time.Now
    rpc,          \* the Refresher's position in its loop     (main.go:66-81)
    rTweets,      \* the Refresher's local `tweets`           (main.go:71)
    wakeAt,       \* the end of the running time.Sleep        (main.go:74)
    curFetch,     \* history: the latest getTweets call and the cache it started from
    fetchHist,    \* history: what the getTweets calls so far have returned
    hpc,          \* the handler's position
    req,          \* the request being handled                (main.go:185)
    hpos,         \* GetOnPosition's parameter pos            (main.go:84)
    hi,           \* formatTimeline's loop variable i         (main.go:144)
    hbody,        \* formatTimeline's local `timeline`        (main.go:143)
    resp,         \* the response Handle returned
    gop,          \* history: the latest completed GetOnPosition call
    hSnap,        \* history: tc.Tweets when the request arrived
    hStable       \* history: every read of tc.Tweets in this request saw hSnap

vars == <<Tweets, LastRefresh, now, rpc, rTweets, wakeAt, curFetch, fetchHist,
          hpc, req, hpos, hi, hbody, resp, gop, hSnap, hStable>>

cacheVars == <<Tweets, LastRefresh>>
refresherVars == <<rpc, rTweets, wakeAt, curFetch, fetchHist>>
handlerVars == <<hpc, req, hpos, hi, hbody, resp, gop, hSnap, hStable>>

----------------------------------------------------------------------------
(* Bounds of the model *)

\* the clock advances in steps of TickStep minutes
TickStep == 5
\* the clock value when the process starts (the zero time lies far before it)
StartTime == 20
\* the model follows the process for MaxElapsed minutes
MaxElapsed == 20
\* the longest timeline the upstream returns in the model
MaxFeedLen == 11
\* the number of different timelines of each length the upstream can return
NumVersions == 2

(* Program constants *)

\* time.Minute*15                                             (main.go:67)
RefreshInterval == 15
\* time.Minute*5                                              (main.go:74)
Cooldown == 5
\* for i := 0; i < 10; i += 1                                 (main.go:144)
TimelineWindow == 10
\* the zero time.Time of a TweetCache literal                 (main.go:211)
ZeroTime == 0

----------------------------------------------------------------------------
(* Strings *)

Str(s) == IF s = "" THEN << >> ELSE <<s>>

\* ui.delimiter of the configuration                          (main.go:41)
Delimiter == "-----"

(* Tweets and the upstream *)

Tweet(v, i) == [Text |-> "tweet" \o ToString(v) \o "." \o ToString(i),
                User |-> [Name |-> "author" \o ToString(v)]]

Feed(n, v) == [i \in 1..n |-> Tweet(v, i)]

FeedLens == {0, 3, MaxFeedLen}

\* the timelines client.Timelines.UserTimeline can return    (main.go:99-104)
Feeds == {Feed(n, v) : n \in FeedLens, v \in 1..NumVersions}

\* time.Since(t)                                              (main.go:67)
Since(t) == now - t

----------------------------------------------------------------------------
(* The Refresher goroutine: TweetCache.Refresher, main.go:65-82 *)

\* a fault of main.go:67: the comparison is <=
IntervalNotElapsed_Inclusive == Since(LastRefresh) <= RefreshInterval

\* time.Since(tc.LastRefresh) < time.Minute*15                (main.go:67)
IntervalNotElapsed == Since(LastRefresh) < RefreshInterval

\* a fault of main.go:75: the guard is left out
IsShort_Never(tweets, cached) == FALSE

\* a fault of main.go:75: the comparison is <=
IsShort_OrEqual(tweets, cached) == Len(tweets) <= Len(cached)

\* len(tweets) < len(tc.Tweets)                               (main.go:75)
IsShort(tweets, cached) == Len(tweets) < Len(cached)

\* a fault of main.go:74: no cooldown
SleepEnd_NoCooldown == now

\* the instant at which time.Sleep(time.Minute * 5) returns   (main.go:74)
SleepEnd == now + Cooldown

\* curFetch: res is "none", "pending", "err" or "ok"; items and last are
\* tc.Tweets and tc.LastRefresh when getTweets was called; failedAt is the
\* instant a failed call returned
NoFetch == [res |-> "none", items |-> << >>, last |-> ZeroTime, failedAt |-> ZeroTime]

\* fetchHist: ok says that a call has returned without error, good is what
\* the latest such call returned, accepted is what the latest call returned
\* that passed the guard of main.go:75, prev is the outcome of the call before
\* the latest one
NoHist == [ok |-> FALSE, good |-> << >>, accepted |-> << >>, prev |-> "none"]

\* main.go:67-68: the interval has not elapsed, `continue`
Refresher_Skip ==
    /\ rpc = "check"
    /\ IntervalNotElapsed
    /\ rpc' = "spin"
    /\ UNCHANGED <<cacheVars, now, rTweets, wakeAt, curFetch, fetchHist, handlerVars>>

\* main.go:67,71: the interval has elapsed, getTweets is called
Refresher_Fetch ==
    /\ rpc = "check"
    /\ ~IntervalNotElapsed
    /\ rpc' = "fetch"
    /\ curFetch' = [res |-> "pending", items |-> Tweets, last |-> LastRefresh,
                    failedAt |-> ZeroTime]
    /\ fetchHist' = [fetchHist EXCEPT !.prev = curFetch.res]
    /\ UNCHANGED <<cacheVars, now, rTweets, wakeAt, handlerVars>>

\* a fault of main.go:71-73: the result is stored before err is looked at
Refresher_FetchError_Stores ==
    /\ rpc = "fetch"
    /\ rTweets' = << >>
    /\ Tweets' = << >>
    /\ curFetch' = [curFetch EXCEPT !.res = "err", !.failedAt = now]
    /\ wakeAt' = SleepEnd
    /\ rpc' = "sleep"
    /\ UNCHANGED <<LastRefresh, now, fetchHist, handlerVars>>

\* a fault of main.go:73-74: the loop is left on an error
Refresher_FetchError_Returns ==
    /\ rpc = "fetch"
    /\ rTweets' = << >>
    /\ curFetch' = [curFetch EXCEPT !.res = "err", !.failedAt = now]
    /\ rpc' = "returned"
    /\ UNCHANGED <<cacheVars, now, wakeAt, fetchHist, handlerVars>>

\* main.go:71,73-74: getTweets returns (nil, err); the cooldown sleep starts
Refresher_FetchError ==
    /\ rpc = "fetch"
    /\ rTweets' = << >>
    /\ curFetch' = [curFetch EXCEPT !.res = "err", !.failedAt = now]
    /\ wakeAt' = SleepEnd
    /\ rpc' = "sleep"
    /\ UNCHANGED <<cacheVars, now, fetchHist, handlerVars>>

\* main.go:74: time.Sleep returns, the loop starts over
Refresher_Wake ==
    /\ rpc = "sleep"
    /\ now >= wakeAt
    /\ wakeAt' = ZeroTime
    /\ rpc' = "check"
    /\ UNCHANGED <<cacheVars, now, rTweets, curFetch, fetchHist, handlerVars>>

\* a fault of main.go:75-76: a short result still counts as a refresh
Refresher_FetchShort_Stamps ==
    /\ rpc = "fetch"
    /\ \E f \in Feeds :
         /\ IsShort(f, Tweets)
         /\ rTweets' = f
         /\ fetchHist' = [fetchHist EXCEPT !.ok = TRUE, !.good = f]
    /\ curFetch' = [curFetch EXCEPT !.res = "ok"]
    /\ LastRefresh' = now
    /\ rpc' = "short"
    /\ UNCHANGED <<Tweets, now, wakeAt, handlerVars>>

\* main.go:71,75-76: getTweets returns fewer tweets than are cached, `continue`
Refresher_FetchShort ==
    /\ rpc = "fetch"
    /\ \E f \in Feeds :
         /\ IsShort(f, Tweets)
         /\ rTweets' = f
         /\ fetchHist' = [fetchHist EXCEPT !.ok = TRUE, !.good = f]
    /\ curFetch' = [curFetch EXCEPT !.res = "ok"]
    /\ rpc' = "short"
    /\ UNCHANGED <<cacheVars, now, wakeAt, handlerVars>>

\* main.go:71,75,77: getTweets returns at least as many tweets as are cached
Refresher_FetchAccept ==
    /\ rpc = "fetch"
    /\ \E f \in Feeds :
         /\ ~IsShort(f, Tweets)
         /\ rTweets' = f
         /\ fetchHist' = [fetchHist EXCEPT !.ok = TRUE, !.good = f, !.accepted = f]
    /\ curFetch' = [curFetch EXCEPT !.res = "ok"]
    /\ rpc' = "store78"
    /\ UNCHANGED <<cacheVars, now, wakeAt, handlerVars>>

\* main.go:78: tc.Tweets = tweets writes a slice header of several words
\* (data pointer, len, cap) with no synchronisation, and the handler reads
\* them with none: the words become visible one after the other, in an order
\* the build decides.  Tweets is the slice as last assigned in full; while
\* rpc is "store78l" the len word is already the new one, while it is
\* "store78p" the data pointer is.

\* main.go:78, the len word is written first
Refresher_StoreLen ==
    /\ rpc = "store78"
    /\ rpc' = "store78l"
    /\ UNCHANGED <<cacheVars, now, rTweets, wakeAt, curFetch, fetchHist, handlerVars>>

\* main.go:78, the data pointer is written first
Refresher_StorePtr ==
    /\ rpc = "store78"
    /\ rpc' = "store78p"
    /\ UNCHANGED <<cacheVars, now, rTweets, wakeAt, curFetch, fetchHist, handlerVars>>

\* main.go:78: tc.Tweets = tweets, the remaining word is written
Refresher_StoreTweets ==
    /\ rpc \in {"store78l", "store78p"}
    /\ Tweets' = rTweets
    /\ rpc' = "store79"
    /\ UNCHANGED <<LastRefresh, now, rTweets, wakeAt, curFetch, fetchHist, handlerVars>>

\* main.go:79: tc.LastRefresh = time.Now()
Refresher_StoreTime ==
    /\ rpc = "store79"
    /\ LastRefresh' = now
    /\ rpc' = "check"
    /\ UNCHANGED <<Tweets, now, rTweets, wakeAt, curFetch, fetchHist, handlerVars>>

\* main.go:68, 76: `continue` takes the loop back to its head
Refresher_Continue ==
    /\ rpc \in {"spin", "short"}
    /\ rpc' = "check"
    /\ UNCHANGED <<cacheVars, now, rTweets, wakeAt, curFetch, fetchHist, handlerVars>>

\* the words of tc.Tweets as another goroutine finds them in memory
TweetsLenWord == IF rpc = "store78l" THEN Len(rTweets) ELSE Len(Tweets)
TweetsArray == IF rpc = "store78p" THEN rTweets ELSE Tweets

\* tc.Tweets as a reader loads it: the array the data pointer refers to and
\* the len word
SeenSlice == [array |-> TweetsArray, len |-> TweetsLenWord]

\* the slice header of a slice assigned in full
Slice(tweets) == [array |-> tweets, len |-> Len(tweets)]

\* the passage of time
Tick ==
    /\ now + TickStep <= StartTime + MaxElapsed
    /\ now' = now + TickStep
    /\ UNCHANGED <<cacheVars, refresherVars, handlerVars>>

----------------------------------------------------------------------------
(* Requests and responses *)

\* a query key is a sequence of characters
Digits == {"0", "1", "2", "3", "4", "5", "6", "7", "8", "9"}

DigitVal(ch) ==
    CASE ch = "0" -> 0 [] ch = "1" -> 1 [] ch = "2" -> 2 [] ch = "3" -> 3
      [] ch = "4" -> 4 [] ch = "5" -> 5 [] ch = "6" -> 6 [] ch = "7" -> 7
      [] ch = "8" -> 8 [] ch = "9" -> 9

\* twenty nines: beyond the range of int
BigKey == [i \in 1..20 |-> "9"]

\* 10^18, nineteen characters: within the range of int
LongKey == <<"1">> \o [i \in 1..18 |-> "0"]

Keys == { <<"0">>, <<"5">>, <<"1", "2">>, <<"-", "1">>, <<"a", "b", "c">>,
          << >>, BigKey, LongKey }

\* r.URL.Query(): the set of keys of the query            (main.go:178, 186)
ParamSets == {{}} \cup {{k} : k \in Keys} \cup {{<<"5">>, <<"a", "b", "c">>}}

Paths == {"/", "/timeline", "/select_tweet", "/about"}

\* every query is tried on /select_tweet, the one path that reads it; the
\* other paths are tried without a query and with one key
Requests ==
    {[Path |-> "/select_tweet", Params |-> q] : q \in ParamSets}
    \cup {[Path |-> p, Params |-> q] : p \in Paths \ {"/select_tweet"},
                                       q \in {{}, {<<"5">>}}}

\* An int of the program has 64 bits; the integers of the model end well
\* below that.  An int is carried exactly up to IntCap in magnitude and as
\* IntCap, or -IntCap, beyond: the program only compares an offset with
\* len(tc.Tweets) and indexes with it, and both come out the same for every
\* value beyond MaxFeedLen.
IntCap == 100000000

\* the value of a sequence of decimal digits, up to IntCap
RECURSIVE DecVal(_)
DecVal(d) ==
    IF d = << >> THEN 0
    ELSE LET front == DecVal(SubSeq(d, 1, Len(d) - 1))
             n     == 10 * front + DigitVal(d[Len(d)])
         IN  IF front >= IntCap \/ n >= IntCap THEN IntCap ELSE n

\* the digits without their leading zeros
RECURSIVE Significant(_)
Significant(d) ==
    IF d # << >> /\ d[1] = "0" THEN Significant(Tail(d)) ELSE d

\* a <= b for two digit sequences of one length
RECURSIVE DigitsLeq(_, _)
DigitsLeq(a, b) ==
    IF a = << >> THEN TRUE
    ELSE IF DigitVal(a[1]) # DigitVal(b[1]) THEN DigitVal(a[1]) < DigitVal(b[1])
    ELSE DigitsLeq(Tail(a), Tail(b))

\* the decimal digits of 1<<63 - 1 and of 1<<63, the largest magnitudes of a
\* positive and of a negative int
MaxIntDigits ==
    <<"9", "2", "2", "3", "3", "7", "2", "0", "3", "6",
      "8", "5", "4", "7", "7", "5", "8", "0", "7">>
MinIntDigits ==
    <<"9", "2", "2", "3", "3", "7", "2", "0", "3", "6",
      "8", "5", "4", "7", "7", "5", "8", "0", "8">>

\* the digits are those of a magnitude an int holds
FitsInt(d, neg) ==
    LET sig   == Significant(d)
        limit == IF neg THEN MinIntDigits ELSE MaxIntDigits
    IN  \/ Len(sig) < Len(limit)
        \/ Len(sig) = Len(limit) /\ DigitsLeq(sig, limit)

\* strconv.Atoi(s) as called at main.go:194: an optional sign, then one or
\* more decimal digits, else a syntax error with value 0.  A string of fewer
\* than 19 characters always fits an int; a longer one takes the ParseInt
\* path, which parses it likewise and answers a magnitude beyond the range
\* of int with a range error and the nearest int.
Atoi(s) ==
    LET neg    == Len(s) > 0 /\ s[1] = "-"
        body   == IF Len(s) > 0 /\ s[1] \in {"-", "+"} THEN Tail(s) ELSE s
        n      == IF neg THEN 0 - DecVal(body) ELSE DecVal(body)
        syntax == [err |-> TRUE, val |-> 0]
    IN  IF Len(body) < 1 THEN syntax
        ELSE IF \E i \in 1..Len(body) : body[i] \notin Digits THEN syntax
        ELSE [err |-> ~FitsInt(body, neg), val |-> n]

\* getFirstKeyFromURL: the keys `for k := range params` may yield first; the
\* iteration order of a Go map is unspecified               (main.go:177-183)
getFirstKeyFromURL(params) == IF params = {} THEN {<< >>} ELSE params

\* gemini.Response{Status, Meta, Body, Cert}; HasBody is FALSE for a nil Body
Response(status, meta, body, hasBody) ==
    [Status |-> status, Meta |-> meta, Body |-> body, HasBody |-> hasBody]

NoResponse == Response(0, "", << >>, FALSE)

\* the state of the file ui.asciiLogoFile names: absent, or its content
LogoFiles == {"absent", "<ascii logo>"}

\* getFooter                                               (main.go:116-121)
getFooter ==
    <<"\n\n=> https://github.com/vegasq/gemini-twitter-mirror Fork me on GitHub\n">>

\* getHeader: with the file absent os.Open returns a nil file, io.Copy from it
\* fails and copies nothing, so the logo is empty           (main.go:123-140)
getHeader(fl) ==
    LET logo == IF fl = "absent" THEN "" ELSE fl
    IN  Str(logo) \o
        <<"\n\n=> / Last tweet\n=> /timeline Timeline\n=> /select_tweet Tweet selector\n\n">>

\* wrapBody                                                (main.go:163-165)
wrapBody(fl, body) == getHeader(fl) \o body \o getFooter

\* tweet.Text + "\n\n" + tweet.User.Name                      (main.go:89)
TweetString(tweet) == <<tweet.Text, "\n\n", tweet.User.Name>>

\* the values GetOnPosition returns                         (main.go:86, 89)
NotAvailable == [err |-> TRUE, val |-> << >>]
Available(tweet) == [err |-> FALSE, val |-> TweetString(tweet)]

\* a fault of main.go:157-159: the error of GetOnPosition is not checked
formatTweet_Unchecked(r) == <<"\n\n">> \o r.val

\* formatTweet, given what GetOnPosition returned          (main.go:155-161)
formatTweet(r) == IF r.err THEN << >> ELSE <<"\n\n">> \o r.val

\* one iteration of formatTimeline's loop body             (main.go:145-150)
TimelineEntry(r) ==
    IF r.err THEN << >> ELSE <<"\n\n">> \o r.val \o <<"\n\n">> \o Str(Delimiter)

\* a fault of main.go:144: i <= 10
TimelineMore_OffByOne(i) == i <= TimelineWindow

\* the loop condition i < 10                                  (main.go:144)
TimelineMore(i) == i < TimelineWindow

\* showTweet / showTimeline: status 20 with the wrapped body
\*                                                     (main.go:167-175)
Success(fl, content) == Response(20, "text/gemini", wrapBody(fl, content), TRUE)

\* a fault of main.go:191: the branch for a query without keys is missing
Route_NoPrompt(r) ==
    IF r.Path = "/" THEN "last"
    ELSE IF r.Path = "/timeline" THEN "timeline"
    ELSE IF r.Path = "/select_tweet" THEN "offset"
    ELSE "notfound"

\* the branch Handle takes                                 (main.go:187-200)
Route(r) ==
    IF r.Path = "/" THEN "last"
    ELSE IF r.Path = "/timeline" THEN "timeline"
    ELSE IF r.Path = "/select_tweet" /\ Cardinality(r.Params) = 0 THEN "prompt"
    ELSE IF r.Path = "/select_tweet" THEN "offset"
    ELSE "notfound"

----------------------------------------------------------------------------
(* The request handler: RequestHandler.Handle and what it calls *)

\* len(tc.Tweets) == 0                                        (main.go:85)
CacheEmpty(tweets) == tweets.len = 0

\* a fault of main.go:85: len(tc.Tweets) < pos
BeyondLast_OffByOne(tweets, pos) == tweets.len < pos

\* len(tc.Tweets)-1 < pos                                     (main.go:85)
BeyondLast(tweets, pos) == tweets.len - 1 < pos

\* the bounds check of the index expression tc.Tweets[pos], made against the
\* len word                                                   (main.go:88)
InRange(tweets, pos) == 0 <= pos /\ pos < tweets.len

\* the element the index expression reads lies in the array the data pointer
\* refers to; otherwise the read is of memory outside it
InArray(tweets, pos) == pos < Len(tweets.array)

NoCall == [pos |-> 0, res |-> "none", val |-> << >>]

NoRequest == [Path |-> "", Params |-> {}]

\* Handle returns rsp
Reply(rsp) ==
    /\ resp' = rsp
    /\ hpc' = "done"
    /\ hpos' = 0
    /\ hi' = 0
    /\ hbody' = << >>

\* GetOnPosition(pos) is entered
Call(pos) ==
    /\ hpos' = pos
    /\ hpc' = "len1"

\* GetOnPosition returns r to formatTweet (main.go:156-160, 168-169) or to
\* formatTimeline (main.go:144-152, 173-174), which run on to their next
\* read of the cache or to the response
Return(r) ==
    /\ gop' = [pos |-> hpos, res |-> IF r.err THEN "err" ELSE "ok", val |-> r.val]
    /\ IF Route(req) = "timeline"
       THEN LET timeline == hbody \o TimelineEntry(r)
            IN  IF TimelineMore(hi + 1)
                THEN /\ hi' = hi + 1
                     /\ hbody' = timeline
                     /\ Call(hi + 1)
                     /\ UNCHANGED resp
                ELSE \E fl \in LogoFiles : Reply(Success(fl, timeline))
       ELSE \E fl \in LogoFiles : Reply(Success(fl, formatTweet(r)))

\* Handle(r): a request arrives and is routed              (main.go:185-200)
Handle(r) ==
    /\ hpc \in {"idle", "done", "panic", "wild"}
    /\ req' = r
    /\ hSnap' = Tweets
    /\ hStable' = TRUE
    /\ gop' = NoCall
    /\ CASE Route(r) = "last" ->
              /\ Call(0)
              /\ hi' = 0 /\ hbody' = << >> /\ resp' = NoResponse
         [] Route(r) = "timeline" ->
              IF TimelineMore(0)
              THEN /\ Call(0)
                   /\ hi' = 0 /\ hbody' = << >> /\ resp' = NoResponse
              ELSE \E fl \in LogoFiles : Reply(Success(fl, << >>))
         [] Route(r) = "prompt" ->
              Reply(Response(10, "Get tweet offset. f.e. 5", << >>, FALSE))
         [] Route(r) = "offset" ->
              \E k \in getFirstKeyFromURL(r.Params) :
                 LET offset == Atoi(k)
                 IN  IF offset.err
                     THEN Reply(Response(42, "Failed to parse input. Please use numbers.",
                                         << >>, FALSE))
                     ELSE /\ Call(offset.val)
                          /\ hi' = 0 /\ hbody' = << >> /\ resp' = NoResponse
         [] OTHER ->
              Reply(Response(51, "Unknown location", << >>, FALSE))
    /\ UNCHANGED <<cacheVars, now, refresherVars>>

\* a fault of main.go:85: the handler stamps the cache it reads
GetOnPosition_Empty_Touches ==
    /\ hpc = "len1"
    /\ hStable' = (hStable /\ SeenSlice = Slice(hSnap))
    /\ IF CacheEmpty(SeenSlice)
       THEN Return(NotAvailable)
       ELSE /\ hpc' = "len2"
            /\ UNCHANGED <<hpos, hi, hbody, resp, gop>>
    /\ LastRefresh' = now
    /\ UNCHANGED <<req, hSnap, Tweets, now, refresherVars>>

\* main.go:85, first operand: len(tc.Tweets) == 0
GetOnPosition_Empty ==
    /\ hpc = "len1"
    /\ hStable' = (hStable /\ SeenSlice = Slice(hSnap))
    /\ IF CacheEmpty(SeenSlice)
       THEN Return(NotAvailable)
       ELSE /\ hpc' = "len2"
            /\ UNCHANGED <<hpos, hi, hbody, resp, gop>>
    /\ UNCHANGED <<req, hSnap, cacheVars, now, refresherVars>>

\* main.go:85, second operand: len(tc.Tweets)-1 < pos
GetOnPosition_Beyond ==
    /\ hpc = "len2"
    /\ hStable' = (hStable /\ SeenSlice = Slice(hSnap))
    /\ IF BeyondLast(SeenSlice, hpos)
       THEN Return(NotAvailable)
       ELSE /\ hpc' = "index"
            /\ UNCHANGED <<hpos, hi, hbody, resp, gop>>
    /\ UNCHANGED <<req, hSnap, cacheVars, now, refresherVars>>

\* GetOnPosition does not return: what stands for its outcome
Abort(outcome) ==
    /\ hpc' = outcome
    /\ gop' = [pos |-> hpos, res |-> outcome, val |-> << >>]
    /\ resp' = NoResponse
    /\ hpos' = 0 /\ hi' = 0 /\ hbody' = << >>

\* main.go:88-89: tweet := tc.Tweets[pos]; an index out of the range of the
\* len word panics; an index within it that is outside the array read is a
\* read of foreign memory ("wild"), whose outcome is undefined
GetOnPosition_Index ==
    /\ hpc = "index"
    /\ hStable' = (hStable /\ SeenSlice = Slice(hSnap))
    /\ IF ~InRange(SeenSlice, hpos) THEN Abort("panic")
       ELSE IF ~InArray(SeenSlice, hpos) THEN Abort("wild")
       ELSE Return(Available(SeenSlice.array[hpos + 1]))
    /\ UNCHANGED <<req, hSnap, cacheVars, now, refresherVars>>

----------------------------------------------------------------------------
\* main.go:203-219: main builds an empty TweetCache, starts the Refresher
\* and serves
Init ==
    /\ Tweets = << >>
    /\ LastRefresh = ZeroTime
    /\ now = StartTime
    /\ rpc = "check"
    /\ rTweets = << >>
    /\ wakeAt = ZeroTime
    /\ curFetch = NoFetch
    /\ fetchHist = NoHist
    /\ hpc = "idle"
    /\ req = NoRequest
    /\ hpos = 0
    /\ hi = 0
    /\ hbody = << >>
    /\ resp = NoResponse
    /\ gop = NoCall
    /\ hSnap = << >>
    /\ hStable = TRUE

Next ==
    \/ Refresher_Skip
    \/ Refresher_Fetch
    \/ Refresher_FetchError
    \/ Refresher_Wake
    \/ Refresher_FetchShort
    \/ Refresher_FetchAccept
    \/ Refresher_StoreLen
    \/ Refresher_StorePtr
    \/ Refresher_StoreTweets
    \/ Refresher_StoreTime
    \/ Refresher_Continue
    \/ Tick
    \/ \E r \in Requests : Handle(r)
    \/ GetOnPosition_Empty
    \/ GetOnPosition_Beyond
    \/ GetOnPosition_Index

Spec == Init /\ [][Next]_vars

\* a step of the Refresher goroutine                      (main.go:65-82)
Refresher ==
    \/ Refresher_Skip
    \/ Refresher_Fetch
    \/ Refresher_FetchError
    \/ Refresher_Wake
    \/ Refresher_FetchShort
    \/ Refresher_FetchAccept
    \/ Refresher_StoreLen
    \/ Refresher_StorePtr
    \/ Refresher_StoreTweets
    \/ Refresher_StoreTime
    \/ Refresher_Continue

\* the Refresher goroutine, started by main.go:213, is scheduled for as long
\* as it can take a step, getTweets returns, and time passes
SpecFair == Spec /\ WF_vars(Refresher) /\ WF_vars(Tick)

----------------------------------------------------------------------------
(* The cache and the Refresher *)

\* C1: the number of cached items never decreases: every step of every
\* execution leaves tc.Tweets at least as long as it was.
C1_CountNeverDecreases == [][Len(Tweets') >= Len(Tweets)]_vars

\* a non-empty snapshot has just been replaced by a different one
C1_Witness ==
    /\ rpc = "store79"
    /\ curFetch.items # << >>
    /\ Tweets # curFetch.items

\* the cache as a reader finds it
Observation == [items |-> Tweets, at |-> LastRefresh]

\* the snapshot the latest fetch started from
OldSnapshot == [items |-> curFetch.items, at |-> curFetch.last]

\* the items are those of a newer snapshot, the timestamp is still the old one
PartlyUpdated == Tweets # OldSnapshot.items /\ LastRefresh = OldSnapshot.at

\* the handler is about to read tc.Tweets
Reading == hpc \in {"len1", "len2", "index"}

\* C2: snapshot replacement is one atomic publish: whenever a request handler
\* reads the cache, items and timestamp are those of one snapshot, never the
\* new items with the old LastRefresh.
C2_AtomicPublish == Reading => ~PartlyUpdated

\* C4: a failed fetch leaves tc.Tweets and tc.LastRefresh as they were when
\* it was called, and the next fetch is called no sooner than Cooldown
\* minutes after the failed one returned.
C4_FailedFetch ==
    /\ [](curFetch.res = "err" => Observation = OldSnapshot)
    /\ [][(curFetch.res = "err" /\ curFetch'.res = "pending")
            => now' >= curFetch.failedAt + Cooldown]_vars

\* a fetch failed with a non-empty cache, the cooldown is over and the
\* Refresher is back at the head of its loop
C4_Witness ==
    /\ curFetch.res = "err"
    /\ rpc = "check"
    /\ Tweets # << >>

\* C5: a fetch that returns fewer items than are cached changes neither
\* tc.Tweets nor tc.LastRefresh, however often it is repeated: from the
\* return of such a fetch until the next fetch the cache is the one the
\* fetch started from.
C5_ShortFetchIgnored ==
    (curFetch.res = "ok" /\ Len(rTweets) < Len(curFetch.items))
        => Observation = OldSnapshot

\* a fetch has returned a shorter, non-empty timeline
C5_Witness ==
    /\ curFetch.res = "ok"
    /\ rTweets # << >>
    /\ Len(rTweets) < Len(curFetch.items)
    /\ rpc = "check"

----------------------------------------------------------------------------
(* The request handler *)

\* the handler has returned or has panicked
Finished == hpc \in {"done", "panic"}

\* the response shapes: success with a body, and the three without
IsSuccess(rsp) == rsp.Status = 20 /\ rsp.Meta = "text/gemini" /\ rsp.HasBody
IsPrompt(rsp) == rsp = Response(10, "Get tweet offset. f.e. 5", << >>, FALSE)
IsClientError(rsp) ==
    rsp = Response(42, "Failed to parse input. Please use numbers.", << >>, FALSE)
IsNotFound(rsp) == rsp = Response(51, "Unknown location", << >>, FALSE)

\* C3: Handle is total: it never panics, what it returns is one of the four
\* response shapes, and a path other than /, /timeline and /select_tweet
\* gets the not-found response.
C3_HandleTotal ==
    /\ hpc # "panic"
    /\ hpc = "done" =>
         /\ IsSuccess(resp) \/ IsPrompt(resp) \/ IsClientError(resp) \/ IsNotFound(resp)
         /\ req.Path \notin {"/", "/timeline", "/select_tweet"} => IsNotFound(resp)

\* the page content of the item at position n of a snapshot: its text and
\* its author after a blank line, nothing when there is no such item
ItemContent(snap, n) ==
    IF 0 <= n /\ n < Len(snap)
    THEN <<"\n\n", snap[n + 1].Text, "\n\n", snap[n + 1].User.Name>>
    ELSE << >>

\* rsp is a success whose body is header, content, footer
IsPage(rsp, content) ==
    /\ IsSuccess(rsp)
    /\ \E fl \in LogoFiles : rsp.Body = getHeader(fl) \o content \o getFooter

\* C6: for a cache that stays as it is during the call and a position
\* pos >= 0, GetOnPosition(pos) returns text and author of the item at pos,
\* without error, if pos < len(Tweets), and the error otherwise.
C6_GetOnPosition ==
    (gop.res # "none" /\ hStable /\ gop.pos >= 0) =>
        IF gop.pos < Len(hSnap)
        THEN /\ gop.res = "ok"
             /\ gop.val = <<hSnap[gop.pos + 1].Text, "\n\n", hSnap[gop.pos + 1].User.Name>>
        ELSE /\ gop.res = "err"
             /\ gop.val = << >>

\* GetOnPosition(5) has returned an item of a cache of more than ten items
C6_Witness ==
    /\ gop.res # "none"
    /\ hStable
    /\ gop.pos = 5
    /\ Len(hSnap) = MaxFeedLen
    /\ gop.res = "ok"

Min(a, b) == IF a < b THEN a ELSE b

\* the content of a timeline page of the first m items of a snapshot: six
\* pieces an item, the last of them the delimiter
TimelineContent(snap, m) ==
    [k \in 1..(6 * m) |->
        LET item == snap[((k - 1) \div 6) + 1]
            part == (k - 1) % 6
        IN  CASE part = 0 -> "\n\n"
              [] part = 1 -> item.Text
              [] part = 2 -> "\n\n"
              [] part = 3 -> item.User.Name
              [] part = 4 -> "\n\n"
              [] part = 5 -> Delimiter]

\* C7: with n items cached throughout the request, /timeline is answered by
\* a success whose body holds the items at positions 0..min(n,10)-1 in that
\* order, each followed by the delimiter, and nothing for the other positions.
C7_Timeline ==
    (Finished /\ req.Path = "/timeline" /\ hStable) =>
        /\ hpc = "done"
        /\ IsPage(resp, TimelineContent(hSnap, Min(Len(hSnap), TimelineWindow)))

\* a timeline page was served from a cache of more than ten items
C7_Witness ==
    /\ hpc = "done"
    /\ req.Path = "/timeline"
    /\ hStable
    /\ Len(hSnap) > TimelineWindow

\* the key parses as an integer that is not negative
IsOffset(k) == ~Atoi(k).err /\ Atoi(k).val >= 0

\* C8: /select_tweet without a query key is answered by the input prompt;
\* with one key that parses as a non-negative integer k, by the success page
\* of the item at position k; with one key that does not parse as an integer,
\* by the client error, which is not the not-found response.
C8_SelectTweet ==
    (Finished /\ req.Path = "/select_tweet") =>
        /\ req.Params = {} => hpc = "done" /\ IsPrompt(resp)
        /\ \A k \in Keys :
             req.Params = {k} =>
               /\ IsOffset(k) =>
                    /\ hpc = "done"
                    /\ IsSuccess(resp)
                    /\ hStable => IsPage(resp, ItemContent(hSnap, Atoi(k).val))
               /\ Atoi(k).err =>
                    /\ hpc = "done"
                    /\ IsClientError(resp)
                    /\ ~IsNotFound(resp)

\* /select_tweet?5 was answered from a cache that holds position 5
C8_Witness ==
    /\ hpc = "done"
    /\ req = [Path |-> "/select_tweet", Params |-> {<<"5">>}]
    /\ hStable
    /\ Len(hSnap) > 5

\* C9: /select_tweet with one key that is not a valid non-negative integer
\* (a negative one included) is answered by the client error, whatever the
\* cache holds.
C9_InvalidOffset ==
    (Finished /\ req.Path = "/select_tweet") =>
        \A k \in Keys :
            (req.Params = {k} /\ ~IsOffset(k)) => hpc = "done" /\ IsClientError(resp)

\* the request is for a single item: / or /select_tweet with an offset
SingleItem == Route(req) \in {"last", "offset"} /\ gop.res # "none"

\* C10: a single-item page whose position is not available (the cache is
\* empty, or the position is not below the number of cached items) is a
\* success whose body is header and footer around nothing.
C10_EmptyPage ==
    (Finished /\ SingleItem /\ hStable
       /\ (Len(hSnap) = 0 \/ gop.pos >= Len(hSnap))) =>
        /\ hpc = "done"
        /\ IsPage(resp, << >>)

\* /select_tweet?5 was answered from a cache of three items
C10_Witness ==
    /\ hpc = "done"
    /\ req = [Path |-> "/select_tweet", Params |-> {<<"5">>}]
    /\ hStable
    /\ Len(hSnap) = 3

----------------------------------------------------------------------------
(* The Refresher's schedule *)

\* C11: while the interval has not elapsed the Refresher waits in a sleep,
\* not in a busy spin: an iteration that finds the interval not elapsed
\* (the `continue` of main.go:68) goes through a sleep before the interval
\* is checked again.
C11_WaitsBySleeping == [][(rpc = "spin" /\ rpc' # "spin") => rpc' = "sleep"]_vars

\* an accepted result is on its way into tc.Tweets (main.go:77-78)
Storing == rpc \in {"store78", "store78l", "store78p"}

\* C12: the cached sequence is empty or is what the most recent fetch that
\* returned without error returned (stated for the states in which no
\* accepted result is still on its way into the cache).
C12_MostRecentSuccess ==
    ~Storing => (Tweets = << >> \/ (fetchHist.ok /\ Tweets = fetchHist.good))

\* C12, amended: the cached sequence is what the most recent accepted fetch
\* returned (a fetch without error and with no fewer items than were cached),
\* and empty before any was accepted.
C12_MostRecentAccepted == ~Storing => Tweets = fetchHist.accepted

\* the latest fetch without error was a short one and the cache still holds
\* the list accepted before it
C12_Witness ==
    /\ rpc = "short"
    /\ fetchHist.good # fetchHist.accepted
    /\ Tweets = fetchHist.accepted
    /\ Tweets # << >>

\* a GetOnPosition call whose index expression read outside the slice: beyond
\* the len word (a panic) or beyond the array the data pointer refers to
OutOfRangeRead == gop.res \in {"panic", "wild"}

\* C17: no GetOnPosition(pos) call with pos >= 0 ever makes an index read
\* Tweets[pos] that is out of range, however its reads of tc.Tweets interleave
\* with the Refresher's writes.
C17_IndexInRange == gop.pos >= 0 => ~OutOfRangeRead

\* the Refresher is in its cooldown sleep and the modelled time ends before
\* the sleep does
SleepsPastHorizon ==
    /\ rpc = "sleep"
    /\ now < wakeAt
    /\ now + TickStep > StartTime + MaxElapsed

\* the step on which getTweets returns an error
FetchFails == curFetch.res = "pending" /\ curFetch'.res = "err"

\* C13: under fairness of the Refresher, every fetch attempt that returns an
\* error is followed by another fetch attempt, however many errors came
\* before (unless the modelled time ends during the cooldown sleep), and the
\* step on which a fetch fails changes neither the cache nor anything a
\* request is handed.
C13_RetriedForever ==
    /\ (curFetch.res = "err") ~> (curFetch.res = "pending" \/ SleepsPastHorizon)
    /\ [][FetchFails => UNCHANGED <<cacheVars, handlerVars>>]_vars

\* a fetch attempt that follows a failed one, none having succeeded so far
C13_Witness ==
    /\ curFetch.res = "pending"
    /\ fetchHist.prev = "err"
    /\ ~fetchHist.ok

\* a step of the request handler
HandlerStep == handlerVars' # handlerVars

\* the step on which a request arrives
Arrives == hpc \in {"idle", "done", "panic", "wild"} /\ HandlerStep

\* C14: no step of the request handler changes tc.Tweets or tc.LastRefresh,
\* and a request starts with nothing an earlier request left behind: no call
\* result, no partial timeline, no loop index, and no response unless it is
\* the request's own.
C14_HandleFrame ==
    [][/\ HandlerStep => UNCHANGED cacheVars
       /\ Arrives => /\ gop' = NoCall
                      /\ hi' = 0
                      /\ hbody' = << >>
                      /\ hpc' # "done" => resp' = NoResponse]_vars

\* a request was answered from a stamped, non-empty cache, which is as the
\* request found it
C14_Witness ==
    /\ hpc = "done"
    /\ gop.res = "ok"
    /\ hStable
    /\ Tweets = hSnap
    /\ Tweets # << >>
    /\ LastRefresh # ZeroTime

\* a loop iteration of the Refresher takes its decision at main.go:67
Decides == rpc = "check" /\ rpc' # "check"

\* C15: a loop iteration calls getTweets if and only if at least 15 minutes
\* have passed since LastRefresh, and skips otherwise; no iteration skips
\* before the first fetch attempt; and while a fetch is under way at least 15
\* minutes have passed since LastRefresh, so none is issued within 15 minutes
\* after an accepted refresh.
C15_FetchIffElapsed ==
    /\ [][Decides => /\ rpc' = "fetch" <=> Since(LastRefresh) >= RefreshInterval
                     /\ rpc' = "spin" <=> Since(LastRefresh) < RefreshInterval]_vars
    /\ [](curFetch.res = "none" => rpc = "check")
    /\ [](curFetch.res = "pending" => now >= LastRefresh + RefreshInterval)

\* a fetch issued after an accepted refresh
C15_Witness ==
    /\ curFetch.res = "pending"
    /\ LastRefresh # ZeroTime
    /\ Tweets # << >>

\* the step on which getTweets returns a list at least as long as the cached
\* one
FetchSucceedsInFull ==
    /\ curFetch.res = "pending"
    /\ curFetch'.res = "ok"
    /\ Len(rTweets') >= Len(Tweets)

\* the step that ends a replacement                        (main.go:79)
Stamps == rpc = "store79" /\ rpc' = "check"

\* the step on which GetOnPosition(pos), pos >= 0, reads tc.Tweets[pos] with
\* no store of an accepted list under way
ReadsAfterwards == hpc = "index" /\ HandlerStep /\ ~Storing /\ hpos >= 0

\* C16: a fetch that succeeds with at least as many items as are cached
\* (as many, or none against an empty cache, included) is accepted; when its
\* replacement ends the cache holds exactly the fetched list and LastRefresh
\* is the current time; and every index read of GetOnPosition made while no
\* later store is under way returns the item of the accepted list.
C16_Replaces ==
    /\ [][FetchSucceedsInFull =>
             /\ rpc' = "store78"
             /\ fetchHist'.accepted = rTweets']_vars
    /\ [][Stamps =>
             /\ Tweets' = rTweets
             /\ rTweets = fetchHist.accepted
             /\ LastRefresh' = now]_vars
    /\ [][ReadsAfterwards =>
             /\ hpos < Len(fetchHist.accepted)
             /\ gop'.res = "ok"
             /\ gop'.val = Available(fetchHist.accepted[hpos + 1]).val]_vars

\* a list of as many items as were cached, but other ones, has replaced them,
\* and a request that arrived afterwards was answered from it
C16_Witness ==
    /\ rpc = "check"
    /\ curFetch.res = "ok"
    /\ Len(rTweets) = Len(curFetch.items)
    /\ rTweets # curFetch.items
    /\ Tweets = rTweets
    /\ LastRefresh = now
    /\ hpc = "done"
    /\ gop.res = "ok"
    /\ hSnap = rTweets

\* rsp is the timeline page of one list the cache can hold
PageOfOneSnapshot(rsp) ==
    \E f \in Feeds : IsPage(rsp, TimelineContent(f, Min(Len(f), TimelineWindow)))

\* C18: the items of one /timeline response all come from one cache
\* snapshot, also when the Refresher replaces the snapshot while
\* formatTimeline goes through the positions 0..9.
C18_SingleSnapshot ==
    (hpc = "done" /\ req.Path = "/timeline") => PageOfOneSnapshot(resp)

\* the step on which getTweets is called again
FetchesAgain == rpc = "check" /\ rpc' = "fetch" /\ curFetch.res \in {"ok", "err"}

\* the previous fetch failed and the cooldown has been slept since
SleptCooldown == curFetch.res = "err" /\ now >= curFetch.failedAt + Cooldown

\* the previous fetch was accepted and stamped, and the interval has passed
\* since
WaitedInterval ==
    /\ curFetch.res = "ok"
    /\ LastRefresh # curFetch.last
    /\ now >= LastRefresh + RefreshInterval

\* C19: between two consecutive calls of getTweets the Refresher has either
\* slept the 5-minute cooldown or waited out the 15-minute interval,
\* whatever the outcome of the first call.
C19_FetchesSpacedOut == [][FetchesAgain => (SleptCooldown \/ WaitedInterval)]_vars

====
